---- MODULE Spec2Model ----
(***************************************************************************)
(* One call of uploadStream (packages/server/lib/cloud/upload/             *)
(* uploadStream.ts): a PUT of a file stream through fetch-retry-ts, with   *)
(* the retryOn hook that records errors and decides on retries, the        *)
(* asynchronous error-body enrichment promises, the activity monitor's     *)
(* abort signal, and the final resolve / reject of the returned promise.   *)
(*                                                                         *)
(* A step of the model is one macrotask of the event loop: the callback    *)
(* that runs when a fetch settles, when a retry timer elapses, when a      *)
(* response body has been read, or when the monitor's timer aborts the     *)
(* controller, together with all the promise reactions (microtasks) that   *)
(* follow it before the loop takes the next macrotask.                     *)
(***************************************************************************)
EXTENDS Integers, Sequences, FiniteSets, TLC

VARIABLES
    options,        \* [retryDelay, activityMonitor]: the options argument
    pc,             \* "start" | "fetching" | "delay" | "awaiting" | "done"
    attempt,        \* fetch-retry's attempt counter (0-based)
    fetchCalls,     \* number of calls of the transport (crossFetch) so far
    waitMs,         \* delay of the pending retry timer
    history,        \* outcome of every completed transport call, in order
    errorPromises,  \* the errorPromises array
    aborted,        \* abortController.signal.aborted
    firedAt,        \* where the call was when the signal fired
    settled,        \* "pending" | "resolved" | "rejected": the returned promise
    result,         \* rejection value of the returned promise
    settleCalls,    \* number of resolve() / reject() calls executed
    monitorCalls,   \* number of activityMonitor.monitor(stream) calls
    fetchInit,      \* the init object handed to retryableFetch
    requests,       \* the init every transport call was made with, in order
    completions,    \* the enrichments completed so far, in completion order
    probe,          \* one application of retryOn / geometricRetry to given arguments
    calls,          \* two concurrent calls: the control state of each
    arrays,         \* two concurrent calls: the errorPromises arrays in memory
    signals         \* two concurrent calls: signal.aborted of each monitor's controller

\* The state of the call
callVars == <<options, pc, attempt, fetchCalls, waitMs, history, errorPromises,
              aborted, firedAt, settled, result, settleCalls, monitorCalls,
              fetchInit, requests, completions>>

\* The state outside the call
twoVars == <<calls, arrays, signals>>

aux == <<probe, twoVars>>

vars == <<callVars, aux>>

----------------------------------------------------------------------------
(* Values *)

Null == [kind |-> "null"]

Undefined == [kind |-> "undefined"]

\* The response statuses the transport is made to answer with.
Statuses == {200, 204, 400, 404, 408, 429, 500, 502, 503, 504}

destinationUrl == "destinationUrl"

Response(s) == [kind |-> "response", status |-> s, statusText |-> "statusText"]

\* An error the transport rejects with; id is the identity of the error object
\* (the index of the transport call that threw it).
NetworkError(id) == [kind |-> "NetworkError", id |-> id]

\* The error fetch rejects with when its signal is aborted.
AbortError(id) == [kind |-> "AbortError", id |-> id]

\* signal.reason once the monitor has aborted the controller.
Reason == [kind |-> "StreamStalledError"]

HttpError(status, statusText, url) ==
    [kind |-> "HttpError", status |-> status, statusText |-> statusText, url |-> url]

AggregateError(errors, n) ==
    [kind |-> "AggregateError", errors |-> errors, count |-> n]

----------------------------------------------------------------------------
(* Pure parts of uploadStream *)

\* The delay doubled from one attempt to the next.
geometricRetry_doubling(n) == 500 * (2 ^ n)

geometricRetry(n) == (n + 1) * 500

identity(n) == n

retryDelay(opts, n) ==
    IF opts.retryDelay = "geometricRetry" THEN geometricRetry(n) ELSE identity(n)

retries == 2

retryOnErrorCodes == {408, 429, 502, 503, 504}

\* Only 200 taken as success.
isErrorStatus_only200(status) == status > 200

\* 400 itself taken as success.
isErrorStatus_strict(status) == status > 400

isErrorStatus(status) == status >= 400

\* Off by one: the attempt index compared with <=.
isUnderRetryLimit_offByOne(att, r) == att <= r

isUnderRetryLimit(att, r) == att < r

isNetworkError(error) == error # Null

\* Every error status taken as retryable.
isRetryableHttpError_anyError(response) ==
    response # Null /\ response.status >= 400

isRetryableHttpError(response) ==
    response # Null /\ response.status \in retryOnErrorCodes

\* The value retryOn returns.
retryOn(att, r, error, response) ==
    isUnderRetryLimit(att, r) /\ (isNetworkError(error) \/ isRetryableHttpError(response))

\* An entry of errorPromises: a promise of an Error.
PendingEnrichment(response) ==
    [state |-> "pending", response |-> response, value |-> Undefined]

Resolved(error) == [state |-> "resolved", response |-> Null, value |-> error]

\* The comparison with 400 made strict: a 400 response is not recorded.
recordHttpError_strict(eps, response) ==
    IF response # Null /\ response.status > 400
    THEN Append(eps, PendingEnrichment(response))
    ELSE eps

\* The promise put in front of the list instead of at its end.
recordHttpError_unshift(eps, response) ==
    IF response # Null /\ isErrorStatus(response.status)
    THEN <<PendingEnrichment(response)>> \o eps
    ELSE eps

\* The pushes retryOn makes before it decides.
recordHttpError(eps, response) ==
    IF response # Null /\ isErrorStatus(response.status)
    THEN Append(eps, PendingEnrichment(response))
    ELSE eps

recordNetworkError(eps, error) ==
    IF error # Null THEN Append(eps, Resolved(error)) ELSE eps

recordErrors(eps, error, response) ==
    recordNetworkError(recordHttpError(eps, response), error)

\* The fallback to the status text left out.
enrichedText_noFallback(jsonOk, response) ==
    IF jsonOk THEN "jsonBody" ELSE "undefined"

\* await response.json().catch(() => response.statusText)
enrichedText(jsonOk, response) ==
    IF jsonOk THEN "jsonBody" ELSE response.statusText

enrich(jsonOk, response) ==
    Resolved(HttpError(response.status, enrichedText(jsonOk, response), destinationUrl))

\* The first fulfilled promise is enough (Promise.race for Promise.all).
allResolved_any(eps) == \E i \in 1..Len(eps) : eps[i].state = "resolved"

\* Promise.all(errorPromises) is fulfilled once every member is.
allResolved(eps) == \A i \in 1..Len(eps) : eps[i].state = "resolved"

valuesOf(eps) == [i \in 1..Len(eps) |-> eps[i].value]

\* Only the first error is ever reported.
consolidate_firstOnly(errors) ==
    IF Len(errors) >= 1 THEN errors[1] ELSE Undefined

\* errors.length > 1 ? new AggregateError(errors, ...) : errors[0]
consolidate(errors) ==
    IF Len(errors) > 1 THEN AggregateError(errors, Len(errors))
    ELSE IF Len(errors) = 1 THEN errors[1]
    ELSE Undefined

\* abortController?.signal.reason ?? e
signalReason(opts, isAborted) ==
    IF opts.activityMonitor /\ isAborted THEN Reason ELSE Undefined

\* The signal's reason ignored.
caughtError_ignoresReason(opts, isAborted, e) == e

caughtError(opts, isAborted, e) ==
    IF signalReason(opts, isAborted) # Undefined THEN signalReason(opts, isAborted) ELSE e

\* toWeb(fileStream), piped through the monitor when there is one; wraps is
\* the number of monitor() calls made when the body was built.
requestBody(opts, wraps) ==
    IF opts.activityMonitor
    THEN [stream |-> "readableFileStream", monitored |-> TRUE, wrap |-> wraps]
    ELSE [stream |-> "readableFileStream", monitored |-> FALSE, wrap |-> 0]

\* The init object of the PUT.
requestInit(opts, wraps) ==
    [method |-> "PUT",
     headers |-> [contentLength |-> "fileSize",
                  contentType |-> "application/x-tar",
                  accept |-> "application/json"],
     body |-> requestBody(opts, wraps),
     signal |-> IF opts.activityMonitor THEN "abortController.signal" ELSE "none"]

\* A new body stream made for every retry.
requestOf_freshBody(init, att) ==
    IF att > 0
    THEN [init EXCEPT !.body = [stream |-> "reopened", monitored |-> FALSE, wrap |-> 0]]
    ELSE init

\* The init the transport call of attempt att is made with: fetch-retry hands
\* every call the init it was given.
requestOf(init, att) == init

\* What fetch rejects with.
transportError(isAborted, id) ==
    IF isAborted THEN AbortError(id) ELSE NetworkError(id)

----------------------------------------------------------------------------
(* Settling the promise uploadStream returns: the first call wins. *)

\* resolve() left out of the success branch.
Resolve_forgotten == UNCHANGED <<settled, result, settleCalls>>

Resolve ==
    /\ settled' = IF settled = "pending" THEN "resolved" ELSE settled
    /\ result' = result
    /\ settleCalls' = settleCalls + 1

Reject(error) ==
    /\ settled' = IF settled = "pending" THEN "rejected" ELSE settled
    /\ result' = IF settled = "pending" THEN error ELSE result
    /\ settleCalls' = settleCalls + 1

Unsettled == UNCHANGED <<settled, result, settleCalls>>

----------------------------------------------------------------------------
(* fetch-retry-ts: the reactions to one settled transport call *)

\* The call rejected on every failure, while the retry is still scheduled.
ScheduleRetry_alsoRejects(att) ==
    /\ pc' = "delay"
    /\ waitMs' = retryDelay(options, att)
    /\ Reject(Undefined)

\* retry(): setTimeout(() => extendedFetch(++attempt), retryDelay(attempt))
ScheduleRetry(att) ==
    /\ pc' = "delay"
    /\ waitMs' = retryDelay(options, att)
    /\ Unsettled

\* fetch resolved with a response: retryOn, then retry or resolve(response);
\* on resolve(response) uploadStream's await continues.
OnResponse(att, response) ==
    /\ history' = Append(history, [error |-> Null, response |-> response])
    /\ errorPromises' = recordErrors(errorPromises, Null, response)
    /\ IF retryOn(att, retries, Null, response)
       THEN ScheduleRetry(att)
       ELSE /\ UNCHANGED waitMs
            /\ IF isErrorStatus(response.status)
               THEN pc' = "awaiting" /\ Unsettled
               ELSE pc' = "done" /\ Resolve

\* fetch rejected: retryOn, then retry or reject(error); on reject(error)
\* uploadStream's catch block runs.
OnError(att, error, isAborted) ==
    /\ history' = Append(history, [error |-> error, response |-> Null])
    /\ errorPromises' = recordErrors(errorPromises, error, Null)
    /\ IF retryOn(att, retries, error, Null)
       THEN ScheduleRetry(att)
       ELSE /\ UNCHANGED waitMs
            /\ pc' = "done"
            /\ Reject(caughtError(options, isAborted, error))

----------------------------------------------------------------------------
(* Actions *)

CallInit ==
    /\ options \in [retryDelay : {"identity", "geometricRetry"},
                    activityMonitor : BOOLEAN]
    /\ pc = "start"
    /\ attempt = 0
    /\ fetchCalls = 0
    /\ waitMs = 0
    /\ history = <<>>
    /\ errorPromises = <<>>
    /\ aborted = FALSE
    /\ firedAt = [pc |-> "never", attempt |-> 0]
    /\ settled = "pending"
    /\ result = Undefined
    /\ settleCalls = 0
    /\ monitorCalls = 0
    /\ fetchInit = Null
    /\ requests = <<>>
    /\ completions = <<>>

\* No function application is being observed.
IdleProbe ==
    [attempt |-> 0, retries |-> 0, error |-> Null, response |-> Null, n |-> 0,
     decided |-> FALSE, decision |-> FALSE, delayed |-> FALSE, delay |-> 0]

\* No concurrent calls are being observed.
TwoIdle ==
    /\ calls = <<>>
    /\ arrays = <<>>
    /\ signals = <<>>

Init ==
    /\ CallInit
    /\ probe = IdleProbe
    /\ TwoIdle

\* retryableFetch(destinationUrl, {...}): extendedFetch(0) calls the transport.
Start ==
    /\ pc = "start"
    /\ pc' = "fetching"
    /\ fetchCalls' = fetchCalls + 1
    /\ monitorCalls' = IF options.activityMonitor THEN monitorCalls + 1 ELSE monitorCalls
    /\ fetchInit' = requestInit(options, monitorCalls')
    /\ requests' = Append(requests, requestOf(fetchInit', 0))
    /\ UNCHANGED <<options, attempt, waitMs, history, errorPromises, aborted,
                   firedAt, settled, result, settleCalls, completions>>
    /\ UNCHANGED aux

\* The transport call in flight answers with a response.
FetchResponds ==
    /\ pc = "fetching"
    /\ ~aborted
    /\ \E s \in Statuses : OnResponse(attempt, Response(s))
    /\ UNCHANGED <<options, attempt, fetchCalls, aborted, firedAt,
                   monitorCalls, fetchInit, requests, completions>>
    /\ UNCHANGED aux

\* The transport call in flight fails with a network error.
FetchFails ==
    /\ pc = "fetching"
    /\ ~aborted
    /\ OnError(attempt, transportError(aborted, fetchCalls), aborted)
    /\ UNCHANGED <<options, attempt, fetchCalls, aborted, firedAt,
                   monitorCalls, fetchInit, requests, completions>>
    /\ UNCHANGED aux

\* The retry timer elapses: extendedFetch(++attempt) calls the transport again.
\* With the signal already aborted the transport rejects at once.
DelayElapses ==
    /\ pc = "delay"
    /\ attempt' = attempt + 1
    /\ fetchCalls' = fetchCalls + 1
    /\ requests' = Append(requests, requestOf(fetchInit, attempt + 1))
    /\ IF aborted
       THEN OnError(attempt + 1, transportError(aborted, fetchCalls + 1), aborted)
       ELSE /\ pc' = "fetching"
            /\ UNCHANGED <<waitMs, history, errorPromises>>
            /\ Unsettled
    /\ UNCHANGED <<options, aborted, firedAt, monitorCalls, fetchInit, completions>>
    /\ UNCHANGED aux

\* The activity monitor aborts its controller with a reason.  A transport call
\* in flight rejects with the abort error in the same turn.
Fire ==
    /\ options.activityMonitor
    /\ ~aborted
    /\ settled = "pending"
    /\ pc # "start"
    /\ aborted' = TRUE
    /\ firedAt' = [pc |-> pc, attempt |-> attempt]
    /\ IF pc = "fetching"
       THEN OnError(attempt, transportError(TRUE, fetchCalls), TRUE)
       ELSE UNCHANGED <<pc, waitMs, history, errorPromises,
                        settled, result, settleCalls>>
    /\ UNCHANGED <<options, attempt, fetchCalls, monitorCalls, fetchInit,
                   requests, completions>>
    /\ UNCHANGED aux

\* The body of an error response has been read (or reading it failed): the
\* promise pushed for it resolves with an HttpError.
Enrich ==
    /\ \E i \in 1..Len(errorPromises) : \E jsonOk \in BOOLEAN :
          /\ errorPromises[i].state = "pending"
          /\ errorPromises' =
               [errorPromises EXCEPT ![i] = enrich(jsonOk, errorPromises[i].response)]
          /\ completions' = Append(completions, [index |-> i, jsonOk |-> jsonOk])
    /\ UNCHANGED <<options, pc, attempt, fetchCalls, waitMs, history, aborted,
                   firedAt, settled, result, settleCalls, monitorCalls, fetchInit,
                   requests>>
    /\ UNCHANGED aux

\* await Promise.all(errorPromises) continues: reject with the consolidation.
Consolidate ==
    /\ pc = "awaiting"
    /\ allResolved(errorPromises)
    /\ pc' = "done"
    /\ Reject(consolidate(valuesOf(errorPromises)))
    /\ UNCHANGED <<options, attempt, fetchCalls, waitMs, history, errorPromises,
                   aborted, firedAt, monitorCalls, fetchInit, requests, completions>>
    /\ UNCHANGED aux

Next ==
    \/ Start
    \/ FetchResponds
    \/ FetchFails
    \/ DelayElapses
    \/ Fire
    \/ Enrich
    \/ Consolidate

Spec == Init /\ [][Next]_vars

\* Every transport call, every retry timer and every body read completes.
FairSpec ==
    /\ Spec
    /\ WF_vars(Start)
    /\ WF_vars(FetchResponds \/ FetchFails)
    /\ WF_vars(DelayElapses)
    /\ WF_vars(Enrich)
    /\ WF_vars(Consolidate)

----------------------------------------------------------------------------
(* retryOn's decision and geometricRetry applied to arguments of any kind *)

MaxAttempt == 3

MaxRetries == 3

MaxN == 3

ProbeErrors == {Null, NetworkError(1), AbortError(1)}

ProbeResponses == {Null} \cup {Response(s) : s \in Statuses}

PureInit ==
    /\ CallInit
    /\ options = [retryDelay |-> "geometricRetry", activityMonitor |-> FALSE]
    /\ probe \in [attempt : 0..MaxAttempt, retries : 0..MaxRetries,
                  error : ProbeErrors, response : ProbeResponses, n : 0..MaxN,
                  decided : {FALSE}, decision : {FALSE},
                  delayed : {FALSE}, delay : {0}]
    /\ TwoIdle

\* retryOn(attempt, retries, error, response) returns.
ApplyRetryOn ==
    /\ ~probe.decided
    /\ probe' = [probe EXCEPT
                   !.decided = TRUE,
                   !.decision = retryOn(probe.attempt, probe.retries,
                                        probe.error, probe.response)]
    /\ UNCHANGED <<callVars, twoVars>>

\* geometricRetry(n) returns.
ApplyGeometricRetry ==
    /\ ~probe.delayed
    /\ probe' = [probe EXCEPT !.delayed = TRUE, !.delay = geometricRetry(probe.n)]
    /\ UNCHANGED <<callVars, twoVars>>

PureNext == ApplyRetryOn \/ ApplyGeometricRetry

PureSpec == PureInit /\ [][PureNext]_vars

----------------------------------------------------------------------------
(* Two uploadStream calls running concurrently, each with its own monitor *)

Calls == {1, 2}

\* The statuses the transport answers the concurrent calls with.
TwoStatuses == {200, 404, 503}

\* One array for all calls (errorPromises declared outside uploadStream).
errorPromisesOf_shared(c) == 1

\* The errorPromises array call c pushes to and awaits: its own, made at line 50.
errorPromisesOf(c) == c

\* The controller whose signal call c hands to fetch and reads in its catch
\* block: the one of its own monitor.
controllerOf(c) == c

\* The identity of the error object thrown by the k-th transport call of call c.
ErrorId(c, k) == 10 * c + k

TwoInit ==
    /\ CallInit
    /\ options = [retryDelay |-> "identity", activityMonitor |-> TRUE]
    /\ probe = IdleProbe
    /\ calls = [c \in Calls |->
                 [options |-> [retryDelay |-> "identity", activityMonitor |-> TRUE],
                  pc |-> "start", attempt |-> 0, fetchCalls |-> 0, waitMs |-> 0,
                  history |-> <<>>, settled |-> "pending", result |-> Undefined,
                  settleCalls |-> 0]]
    /\ arrays = [a \in Calls |-> <<>>]
    /\ signals = [m \in Calls |-> FALSE]

\* resolve() / reject(error) of the promise of a call r.
Resolved2(r) ==
    [r EXCEPT !.pc = "done",
              !.settled = IF r.settled = "pending" THEN "resolved" ELSE @,
              !.settleCalls = @ + 1]

Rejected2(r, error) ==
    [r EXCEPT !.pc = "done",
              !.settled = IF r.settled = "pending" THEN "rejected" ELSE @,
              !.result = IF r.settled = "pending" THEN error ELSE @,
              !.settleCalls = @ + 1]

\* The call r after its transport call answered with a response.
AfterResponse(r, response) ==
    LET r1 == [r EXCEPT !.history = Append(@, [error |-> Null, response |-> response])]
    IN  IF retryOn(r.attempt, retries, Null, response)
        THEN [r1 EXCEPT !.pc = "delay", !.waitMs = retryDelay(r.options, r.attempt)]
        ELSE IF isErrorStatus(response.status)
             THEN [r1 EXCEPT !.pc = "awaiting"]
             ELSE Resolved2(r1)

\* The call r after its transport call rejected with error.
AfterError(r, error, isAborted) ==
    LET r1 == [r EXCEPT !.history = Append(@, [error |-> error, response |-> Null])]
    IN  IF retryOn(r.attempt, retries, error, Null)
        THEN [r1 EXCEPT !.pc = "delay", !.waitMs = retryDelay(r.options, r.attempt)]
        ELSE Rejected2(r1, caughtError(r.options, isAborted, error))

Start2(c) ==
    /\ calls[c].pc = "start"
    /\ calls' = [calls EXCEPT ![c].pc = "fetching", ![c].fetchCalls = @ + 1]
    /\ UNCHANGED <<arrays, signals>>
    /\ UNCHANGED <<callVars, probe>>

FetchResponds2(c) ==
    /\ calls[c].pc = "fetching"
    /\ ~signals[controllerOf(c)]
    /\ \E s \in TwoStatuses :
          /\ calls' = [calls EXCEPT ![c] = AfterResponse(calls[c], Response(s))]
          /\ arrays' = [arrays EXCEPT ![errorPromisesOf(c)] =
                                        recordErrors(@, Null, Response(s))]
    /\ UNCHANGED signals
    /\ UNCHANGED <<callVars, probe>>

FetchFails2(c) ==
    /\ calls[c].pc = "fetching"
    /\ ~signals[controllerOf(c)]
    /\ LET error == NetworkError(ErrorId(c, calls[c].fetchCalls))
       IN  /\ calls' = [calls EXCEPT ![c] = AfterError(calls[c], error, FALSE)]
           /\ arrays' = [arrays EXCEPT ![errorPromisesOf(c)] = recordErrors(@, error, Null)]
    /\ UNCHANGED signals
    /\ UNCHANGED <<callVars, probe>>

DelayElapses2(c) ==
    /\ calls[c].pc = "delay"
    /\ LET r == [calls[c] EXCEPT !.pc = "fetching", !.attempt = @ + 1, !.fetchCalls = @ + 1]
           error == AbortError(ErrorId(c, r.fetchCalls))
       IN  IF signals[controllerOf(c)]
           THEN /\ calls' = [calls EXCEPT ![c] = AfterError(r, error, TRUE)]
                /\ arrays' = [arrays EXCEPT ![errorPromisesOf(c)] =
                                              recordErrors(@, error, Null)]
           ELSE /\ calls' = [calls EXCEPT ![c] = r]
                /\ UNCHANGED arrays
    /\ UNCHANGED signals
    /\ UNCHANGED <<callVars, probe>>

\* The monitor of call m aborts its controller; the transport call in flight
\* with that controller's signal rejects in the same turn.
Fire2(m) ==
    /\ ~signals[m]
    /\ calls[m].pc # "start"
    /\ calls[m].settled = "pending"
    /\ signals' = [signals EXCEPT ![m] = TRUE]
    /\ LET hit == {c \in Calls : controllerOf(c) = m /\ calls[c].pc = "fetching"}
           errorOf(c) == AbortError(ErrorId(c, calls[c].fetchCalls))
       IN  /\ calls' = [c \in Calls |->
                          IF c \in hit THEN AfterError(calls[c], errorOf(c), TRUE)
                          ELSE calls[c]]
           /\ arrays' = [a \in Calls |->
                          IF \E c \in hit : errorPromisesOf(c) = a
                          THEN recordErrors(arrays[a],
                                 errorOf(CHOOSE c \in hit : errorPromisesOf(c) = a), Null)
                          ELSE arrays[a]]
    /\ UNCHANGED <<callVars, probe>>

Enrich2(a) ==
    /\ \E i \in 1..Len(arrays[a]) : \E jsonOk \in BOOLEAN :
          /\ arrays[a][i].state = "pending"
          /\ arrays' = [arrays EXCEPT ![a][i] = enrich(jsonOk, arrays[a][i].response)]
    /\ UNCHANGED <<calls, signals>>
    /\ UNCHANGED <<callVars, probe>>

Consolidate2(c) ==
    /\ calls[c].pc = "awaiting"
    /\ allResolved(arrays[errorPromisesOf(c)])
    /\ calls' = [calls EXCEPT ![c] =
                   Rejected2(calls[c], consolidate(valuesOf(arrays[errorPromisesOf(c)])))]
    /\ UNCHANGED <<arrays, signals>>
    /\ UNCHANGED <<callVars, probe>>

TwoNext ==
    \/ \E c \in Calls : Start2(c)
    \/ \E c \in Calls : FetchResponds2(c)
    \/ \E c \in Calls : FetchFails2(c)
    \/ \E c \in Calls : DelayElapses2(c)
    \/ \E m \in Calls : Fire2(m)
    \/ \E a \in Calls : Enrich2(a)
    \/ \E c \in Calls : Consolidate2(c)

TwoSpec == TwoInit /\ [][TwoNext]_vars

----------------------------------------------------------------------------
(* Properties *)

Last(seq) == seq[Len(seq)]

IsResponse(h) == h.response # Null

IsFailure(h) == h.error # Null \/ h.response.status >= 400

NonRetryableFailure(h) ==
    /\ IsResponse(h)
    /\ h.response.status >= 400
    /\ h.response.status \notin {408, 429, 502, 503, 504}

RetryableStatus(h) == IsResponse(h) /\ h.response.status \in {408, 429, 502, 503, 504}

IsHttpErrorOf(e, h) ==
    /\ e.kind = "HttpError"
    /\ e.status = h.response.status
    /\ e.url = destinationUrl

\* e is the error of the failed attempt h
IsErrorOf(e, h) == IF IsResponse(h) THEN IsHttpErrorOf(e, h) ELSE e = h.error

\* C1: the number of transport attempts and the number of recorded errors
\* never exceed 3, whatever the transport answers.
C1_AtMostThreeAttempts ==
    /\ fetchCalls <= 3
    /\ Len(history) <= 3
    /\ Len(errorPromises) <= 3

C1_Witness == fetchCalls = 3 /\ Len(errorPromises) = 3 /\ pc = "done"

\* C2: when the first attempt answers with a non-retryable error status, no
\* second attempt is made, and the call does not resolve but rejects with the
\* unwrapped HttpError of that attempt.
C2_NonRetryableFailsAtOnce ==
    (Len(history) >= 1 /\ NonRetryableFailure(history[1])) =>
        /\ fetchCalls = 1
        /\ Len(history) = 1
        /\ pc \in {"awaiting", "done"}
        /\ settled # "resolved"
        /\ (pc = "done") = (settled = "rejected")
        /\ settled = "rejected" => IsHttpErrorOf(result, history[1])

C2_Witness ==
    /\ settled = "rejected"
    /\ history[1].response = Response(404)
    /\ result.kind = "HttpError"

\* C3: when every attempt answers with a retryable status and the signal does
\* not fire, the call does not settle before the third attempt has answered,
\* and it then rejects with an AggregateError of three HttpErrors that carry
\* the statuses of the three attempts, in order.
C3_ThreeRetryableFailures ==
    (Len(history) >= 1 /\ ~aborted /\ \A i \in 1..Len(history) : RetryableStatus(history[i])) =>
        IF Len(history) < 3
        THEN settled = "pending" /\ pc \in {"delay", "fetching"}
        ELSE /\ fetchCalls = 3
             /\ pc \in {"awaiting", "done"}
             /\ settled # "resolved"
             /\ (pc = "done") = (settled = "rejected")
             /\ settled = "rejected" =>
                  /\ result.kind = "AggregateError"
                  /\ Len(result.errors) = 3
                  /\ \A i \in 1..3 : IsHttpErrorOf(result.errors[i], history[i])

C3_Witness ==
    /\ settled = "rejected"
    /\ Len(history) = 3
    /\ \A i \in 1..3 : history[i].response = Response(503)
    /\ result.kind = "AggregateError"

\* C4: when earlier attempts failed and a later attempt answers with a status
\* below 400, the call resolves in the same turn, without waiting for the
\* enrichments of the earlier attempts, and no error is ever delivered.
C4_SuccessAfterFailures ==
    (Len(history) >= 2 /\ IsResponse(Last(history))
        /\ Last(history).response.status < 400) =>
        /\ pc = "done"
        /\ settled = "resolved"
        /\ result = Undefined
        /\ settleCalls = 1

C4_Witness ==
    /\ settled = "resolved"
    /\ Len(history) = 2
    /\ Len(errorPromises) = 1
    /\ errorPromises[1].state = "pending"

\* C5: a network error on attempt 0 followed by a non-retryable error status on
\* attempt 1 ends the call after two attempts, with an AggregateError whose
\* members are the network error and the HttpError, in this order.
C5_NetworkThenHttpError ==
    (/\ Len(history) >= 2
     /\ history[1].error.kind = "NetworkError"
     /\ NonRetryableFailure(history[2])) =>
        /\ fetchCalls = 2
        /\ Len(history) = 2
        /\ pc \in {"awaiting", "done"}
        /\ settled # "resolved"
        /\ (pc = "done") = (settled = "rejected")
        /\ settled = "rejected" =>
             /\ result.kind = "AggregateError"
             /\ Len(result.errors) = 2
             /\ result.errors[1] = history[1].error
             /\ IsHttpErrorOf(result.errors[2], history[2])

C5_Witness ==
    /\ settled = "rejected"
    /\ Len(history) = 2
    /\ history[1].error = NetworkError(1)
    /\ history[2].response = Response(400)
    /\ result.kind = "AggregateError"

\* C6: when the signal fires while a transport attempt is in flight, whatever
\* the attempt index and whatever was recorded before, the call never resolves
\* and, once settled, has rejected with the signal's reason itself.
C6_CancellationReasonWins ==
    firedAt.pc = "fetching" =>
        /\ settled # "resolved"
        /\ (pc = "done") = (settled = "rejected")
        /\ settled = "rejected" => result = Reason

C6_Witness ==
    /\ firedAt = [pc |-> "fetching", attempt |-> 1]
    /\ history[1].response = Response(503)
    /\ Len(errorPromises) = 3
    /\ settled = "rejected"
    /\ result = Reason

\* C7: once the signal has fired during an attempt, that attempt is the last
\* one: the transport is not called again.
C7_NoAttemptAfterCancellation ==
    firedAt.pc = "fetching" => fetchCalls = firedAt.attempt + 1

\* C8: a settled call has resolved exactly when its last attempt answered with
\* a status below 400 and the signal did not fire; a call whose signal has
\* fired never resolves.
C8_SuccessIffFinalOkAndNoCancel ==
    /\ settled # "pending" =>
         ((settled = "resolved") <=>
            (/\ IsResponse(Last(history))
             /\ Last(history).response.status < 400
             /\ ~aborted))
    /\ aborted => settled # "resolved"
    /\ (Len(history) >= 1 /\ IsResponse(Last(history))
          /\ Last(history).response.status < 400) => settled = "resolved"

C8_Witness ==
    /\ options.activityMonitor
    /\ settled = "resolved"
    /\ Len(history) = 3
    /\ Last(history).response = Response(204)

\* The errors of all failed attempts, consolidated: what C9 expects.
IsConsolidationOf(e, hist) ==
    IF Len(hist) = 1
    THEN IsErrorOf(e, hist[1])
    ELSE /\ e.kind = "AggregateError"
         /\ Len(e.errors) = Len(hist)
         /\ \A i \in 1..Len(hist) : IsErrorOf(e.errors[i], hist[i])

\* C9: a call that fails without cancellation rejects with the single recorded
\* error when one attempt failed, and otherwise with an AggregateError of the
\* errors of all failed attempts in attempt order, whether the last attempt
\* ended in an error response or in a network error.
C9_FailureIsConsolidation ==
    (settled = "rejected" /\ ~aborted) => IsConsolidationOf(result, history)

\* C10: resolve / reject is executed at most once, a settled call keeps its
\* state and value, and under fairness every call settles.
C10_SettlesExactlyOnce ==
    /\ [](settleCalls <= 1)
    /\ []((settled = "pending") = (settleCalls = 0))
    /\ [][settled # "pending" => (settled' = settled /\ result' = result)]_vars
    /\ <>(settled # "pending")

C10_Witness ==
    /\ settled = "rejected"
    /\ settleCalls = 1
    /\ pc = "done"
    /\ \A i \in 1..Len(errorPromises) : errorPromises[i].state = "resolved"

\* C13: whenever the signal has fired before the call settles as a failure,
\* the rejection value is the signal's reason.
C13_ReasonSupersedesEverything ==
    (settled = "rejected" /\ aborted) => result = Reason

\* Transport calls made and not yet completed.
InFlight == fetchCalls - Len(history)

\* The decision taken for the attempt with index k and outcome h was 'retry'.
WasGrantedRetry(h, k) ==
    /\ k < 2
    /\ (h.error # Null \/ h.response.status \in {408, 429, 502, 503, 504})

\* C14: at most one transport call is in flight, and the transport is called
\* again only from the elapsed retry timer, after the previous call has
\* completed and the decision for it was 'retry'.
C14_AttemptsAreSequential ==
    /\ [](InFlight \in {0, 1} /\ ((pc = "fetching") = (InFlight = 1)))
    /\ [][fetchCalls' # fetchCalls =>
            /\ fetchCalls' = fetchCalls + 1
            /\ \/ pc = "start" /\ fetchCalls = 0
               \/ /\ pc = "delay"
                  /\ InFlight = 0
                  /\ Len(history) >= 1
                  /\ WasGrantedRetry(Last(history), Len(history) - 1)]_vars

C14_Witness == fetchCalls = 3 /\ pc = "fetching" /\ Len(history) = 2

\* The entry of errorPromises that belongs to the failed attempt h.
IsEntryOf(p, h) ==
    IF p.state = "pending"
    THEN IsResponse(h) /\ p.response = h.response
    ELSE p.state = "resolved" /\ IsErrorOf(p.value, h)

\* C19: errorPromises holds one entry per failed attempt so far, in attempt
\* order, and none for an attempt that answered below 400; the rejection of a
\* call whose last attempt answered with an error status is never undefined.
C19_OneRecordPerFailedAttempt ==
    /\ Len(errorPromises) = Cardinality({i \in 1..Len(history) : IsFailure(history[i])})
    /\ \A i \in 1..Len(errorPromises) :
         IsFailure(history[i]) /\ IsEntryOf(errorPromises[i], history[i])
    /\ (pc \in {"awaiting", "done"} /\ IsResponse(Last(history))
          /\ Last(history).response.status >= 400) =>
         /\ Len(errorPromises) >= 1
         /\ settled = "rejected" => result # Undefined

C19_Witness ==
    /\ settled = "rejected"
    /\ Len(history) = 1
    /\ history[1].response = Response(400)
    /\ Len(errorPromises) = 1
    /\ result.kind = "HttpError"

\* C20: a settled call is done: no retry timer is pending for it and the
\* transport is never called for it again.
C20_NoAttemptAfterSettling ==
    /\ [](settled # "pending" => pc = "done")
    /\ [][settled # "pending" => (fetchCalls' = fetchCalls /\ pc' = "done")]_vars

C20_Witness ==
    /\ settled = "resolved"
    /\ fetchCalls = 3
    /\ Len(errorPromises) = 2
    /\ \A i \in 1..2 : errorPromises[i].state = "resolved"

\* The member of the rejection e that stands for attempt i, of n failed attempts.
MemberOf(e, i, n) == IF n = 1 THEN e ELSE e.errors[i]

\* C15: a call that fails through the error-response path rejects only after
\* every enrichment started for it has completed, and the members of the
\* rejection are in attempt order whatever the order of completion.
C15_RejectsAfterAllEnrichments ==
    /\ pc = "awaiting" => settled = "pending"
    /\ (settled = "rejected" /\ IsResponse(Last(history))) =>
         /\ \A i \in 1..Len(errorPromises) : errorPromises[i].state = "resolved"
         /\ Len(completions) = Cardinality({i \in 1..Len(history) : IsResponse(history[i])})
         /\ IsConsolidationOf(result, history)

C15_Witness ==
    /\ settled = "rejected"
    /\ Len(history) = 3
    /\ Len(completions) = 3
    /\ completions[1].index = 3
    /\ completions[3].index = 1
    /\ result.kind = "AggregateError"

\* C16: a completed enrichment is a fulfilled promise of an HttpError with the
\* status of its response and the destination URL; when reading the body
\* failed, it carries the status text of the response.  The rejection of the
\* error-response path holds exactly these values.
C16_EnrichmentNeverFails ==
    /\ \A i \in 1..Len(errorPromises) : errorPromises[i].state \in {"pending", "resolved"}
    /\ \A k \in 1..Len(completions) :
         LET c == completions[k]
             p == errorPromises[c.index]
             h == history[c.index]
         IN  /\ p.state = "resolved"
             /\ p.value.kind = "HttpError"
             /\ p.value.status = h.response.status
             /\ p.value.url = "destinationUrl"
             /\ p.value.statusText = IF c.jsonOk THEN "jsonBody" ELSE "statusText"
             /\ (settled = "rejected" /\ IsResponse(Last(history))) =>
                   MemberOf(result, c.index, Len(history)) = p.value

C16_Witness ==
    /\ settled = "rejected"
    /\ Len(history) = 1
    /\ Len(completions) = 1
    /\ ~completions[1].jsonOk
    /\ result = HttpError(500, "statusText", "destinationUrl")

\* C17: the stream is wrapped by the monitor at most once, and every transport
\* call of the call is made with the same request: the same body stream, the
\* same signal when there is a monitor, method PUT and the same three headers.
C17_SameRequestEveryAttempt ==
    /\ monitorCalls <= 1
    /\ monitorCalls = IF options.activityMonitor /\ pc # "start" THEN 1 ELSE 0
    /\ Len(requests) = fetchCalls
    /\ \A i \in 1..Len(requests) :
         /\ requests[i] = requests[1]
         /\ requests[i].method = "PUT"
         /\ requests[i].headers = [contentLength |-> "fileSize",
                                   contentType |-> "application/x-tar",
                                   accept |-> "application/json"]
         /\ requests[i].body.stream = "readableFileStream"
         /\ requests[i].body.monitored = options.activityMonitor
         /\ (requests[i].signal = "abortController.signal") = options.activityMonitor

C17_Witness ==
    /\ options.activityMonitor
    /\ monitorCalls = 1
    /\ Len(requests) = 3
    /\ pc = "done"

\* C11: retryOn grants a retry exactly when attempt < retries and there is a
\* network error or a response with a status in {408, 429, 502, 503, 504};
\* so a network error is retried whenever attempts remain, another error
\* status never is, and (2, 2, no error, 503) is refused.
C11_RetryDecision ==
    probe.decided =>
        /\ probe.decision =
             (/\ probe.attempt < probe.retries
              /\ \/ probe.error # Null
                 \/ /\ probe.response # Null
                    /\ probe.response.status \in {408, 429, 502, 503, 504})
        /\ (probe.error # Null /\ probe.attempt < probe.retries) => probe.decision
        /\ (/\ probe.error = Null
            /\ probe.response # Null
            /\ probe.response.status >= 400
            /\ probe.response.status \notin {408, 429, 502, 503, 504}) => ~probe.decision
        /\ (/\ probe.attempt = 2
            /\ probe.retries = 2
            /\ probe.error = Null
            /\ probe.response = Response(503)) => ~probe.decision

C11_Witness ==
    /\ probe.decided
    /\ probe.attempt = 2
    /\ probe.retries = 2
    /\ probe.error = Null
    /\ probe.response = Response(503)
    /\ ~probe.decision

\* C12: geometricRetry(n) is 500 milliseconds times n + 1: 500, 1000 and 1500
\* for the attempt indices 0, 1 and 2.
C12_GeometricRetry ==
    probe.delayed =>
        /\ probe.delay = 500 * probe.n + 500
        /\ probe.n = 0 => probe.delay = 500
        /\ probe.n = 1 => probe.delay = 1000
        /\ probe.n = 2 => probe.delay = 1500

C12_Witness == probe.delayed /\ probe.n = 2 /\ probe.delay = 1500

\* What a call with the transport outcomes h, whose own signal has or has not
\* fired, ends with when it runs alone: the outcome r is that outcome.
IsSoloOutcome(r, h, ownSignalFired) ==
    IF IsResponse(Last(h))
    THEN IF Last(h).response.status < 400
         THEN r.settled = "resolved" /\ r.result = Undefined
         ELSE r.settled = "rejected" /\ IsConsolidationOf(r.result, h)
    ELSE /\ r.settled = "rejected"
         /\ r.result = IF ownSignalFired THEN Reason ELSE Last(h).error

\* The single call of Spec ends with the outcome IsSoloOutcome describes.
SingleCallHasSoloOutcome ==
    settled # "pending" =>
        IsSoloOutcome([settled |-> settled, result |-> result], history, aborted)

\* C18: of two concurrent calls with their own monitors, each holds only the
\* records of its own failed attempts, is cancelled only by its own monitor,
\* and settles as it would alone on its own transport outcomes.
C18_ConcurrentCallsAreIndependent ==
    \A c \in Calls :
        LET r == calls[c]
            h == r.history
        IN  /\ Len(arrays[c]) = Cardinality({i \in 1..Len(h) : IsFailure(h[i])})
            /\ \A i \in 1..Len(arrays[c]) : IsEntryOf(arrays[c][i], h[i])
            /\ \A i \in 1..Len(h) :
                 h[i].error # Null => h[i].error.id = 10 * c + i
            /\ ~signals[c] =>
                 /\ \A i \in 1..Len(h) : h[i].error.kind # "AbortError"
                 /\ r.result # Reason
            /\ r.settleCalls <= 1
            /\ (r.settled # "pending") = (r.pc = "done")
            /\ r.settled # "pending" => IsSoloOutcome(r, h, signals[c])

C18_Witness ==
    /\ calls[1].settled = "rejected"
    /\ calls[1].result = Reason
    /\ ~signals[2]
    /\ calls[2].settled = "rejected"
    /\ calls[2].result.kind = "AggregateError"
    /\ Len(calls[2].result.errors) = 3
    /\ calls[2].history[1].error = NetworkError(21)

====
